---------------------------- MODULE Spec2Model ----------------------------
(***************************************************************************)
(* Model of src/src/components/ExcelCalculator.tsx: the sheet-ingest and   *)
(* chart-sampling pipeline of the ExcelCalculator component.               *)
(*                                                                         *)
(* JavaScript strings are sequences of one-character strings, so that      *)
(* endsWith, template literals, number-to-string conversion and the        *)
(* property-key rules of plain objects are computed, not assumed.          *)
(* The Cyrillic literals of the source are transliterated (the module      *)
(* language is ASCII): "Stroka " is the row label, "Znachenie " the        *)
(* series label of the source.                                             *)
(***************************************************************************)
EXTENDS Integers, Sequences, FiniteSets, Bags, TLC

VARIABLES sheetData, activeSheet, fileName, chartData, pending, last, sampled

vars == <<sheetData, activeSheet, fileName, chartData, pending, last, sampled>>

---------------------------------------------------------------------------
(* Bounds *)

\* FileReader reads that may be in flight at once
MaxPending == 2
\* data columns (columns 1..N) of the grids of SpecSample
MaxCols == 2
\* data rows of the grids of SpecSample
MaxDataRows == 2

---------------------------------------------------------------------------
(* JavaScript strings *)

Digits == <<"0", "1", "2", "3", "4", "5", "6", "7", "8", "9">>

IsDigit(c) == \E d \in 1..10 : Digits[d] = c

DigitVal(c) == (CHOOSE d \in 1..10 : Digits[d] = c) - 1

\* String.prototype.endsWith
EndsWith(s, suffix) ==
    /\ Len(suffix) <= Len(s)
    /\ SubSeq(s, Len(s) - Len(suffix) + 1, Len(s)) = suffix

\* Number.prototype.toString for the non-negative integers of the model
RECURSIVE NumberToString(_)
NumberToString(n) == IF n < 10 THEN <<Digits[n + 1]>>
               ELSE NumberToString(n \div 10) \o <<Digits[(n % 10) + 1]>>

\* lexicographic order of two digit strings of equal length
RECURSIVE LexLess(_, _)
LexLess(a, b) ==
    IF a = <<>> THEN FALSE
    ELSE IF Head(a) # Head(b) THEN DigitVal(Head(a)) < DigitVal(Head(b))
    ELSE LexLess(Tail(a), Tail(b))

\* numeric order of two canonical numeric strings
NumLess(a, b) == Len(a) < Len(b) \/ (Len(a) = Len(b) /\ LexLess(a, b))

\* 2^32 - 1, the first integer that is not an array index
MaxIndexStr == <<"4", "2", "9", "4", "9", "6", "7", "2", "9", "5">>

\* ECMAScript "array index": a canonical numeric string below 2^32 - 1
IsArrayIndex(s) ==
    /\ Len(s) >= 1
    /\ \A i \in 1..Len(s) : IsDigit(s[i])
    /\ (Len(s) = 1 \/ s[1] # "0")
    /\ NumLess(s, MaxIndexStr)

---------------------------------------------------------------------------
(* JavaScript values held by cells: string | number, and undefined for an  *)
(* index past the end of an array                                          *)

Num(n) == [type |-> "number", num |-> n, str |-> <<>>]

Str(s) == [type |-> "string", num |-> 0, str |-> s]

Undefined == [type |-> "undefined", num |-> 0, str |-> <<>>]

\* row[i] with the 0-based index of the source
At(row, i) == IF i + 1 \in DOMAIN row THEN row[i + 1] ELSE Undefined

\* ToBoolean, as used by ||
Truthy(v) ==
    CASE v.type = "number" -> v.num # 0
      [] v.type = "string" -> v.str # <<>>
      [] OTHER -> FALSE

\* a || b
OrElse(a, b) == IF Truthy(a) THEN a ELSE b

\* ToPropertyKey of a string or number
ToKey(v) == IF v.type = "number" THEN NumberToString(v.num) ELSE v.str

---------------------------------------------------------------------------
(* Plain JavaScript objects ({}), used as dictionaries by the source:      *)
(* own holds the own properties in creation order, proto the prototype     *)
(* once an assignment to the key __proto__ replaced Object.prototype       *)

ProtoKey == <<"_", "_", "p", "r", "o", "t", "o", "_", "_">>

EmptyObject == [own |-> <<>>, proto |-> [set |-> FALSE, val |-> <<>>]]

HasOwn(obj, key) == \E i \in 1..Len(obj.own) : obj.own[i].key = key

\* obj[key] = val. The key __proto__ reaches the accessor of
\* Object.prototype: it replaces the prototype when val is an object and
\* does nothing otherwise; no own property is created.
PropertySet(obj, key, val, valIsObject) ==
    IF key = ProtoKey
    THEN IF valIsObject
         THEN [obj EXCEPT !.proto = [set |-> TRUE, val |-> val]]
         ELSE obj
    ELSE IF HasOwn(obj, key)
    THEN [obj EXCEPT !.own = [i \in 1..Len(obj.own) |->
            IF obj.own[i].key = key THEN [key |-> key, val |-> val]
            ELSE obj.own[i]]]
    ELSE [obj EXCEPT !.own = Append(obj.own, [key |-> key, val |-> val])]

\* obj[key] for the keys the component reads: its own properties, and
\* __proto__ once an assignment replaced the prototype (the component reads
\* that key only after it assigned an array to it)
PropertyGet(obj, key, undef) ==
    IF key = ProtoKey
    THEN IF obj.proto.set THEN [found |-> TRUE, val |-> obj.proto.val]
         ELSE [found |-> FALSE, val |-> undef]
    ELSE IF HasOwn(obj, key)
    THEN [found |-> TRUE,
          val |-> obj.own[CHOOSE i \in 1..Len(obj.own) : obj.own[i].key = key].val]
    ELSE [found |-> FALSE, val |-> undef]

\* the keys of a sequence of strings that are array indices, ascending
RECURSIVE SortIndexKeys(_)
SortIndexKeys(S) ==
    IF S = {} THEN <<>>
    ELSE LET m == CHOOSE k \in S : \A o \in S \ {k} : NumLess(k, o)
         IN <<m>> \o SortIndexKeys(S \ {m})

IsNotArrayIndex(s) == ~IsArrayIndex(s)

\* Object.keys(obj): array-index keys in ascending numeric order, then the
\* other string keys in creation order
ObjectKeys(obj) ==
    LET created == [i \in 1..Len(obj.own) |-> obj.own[i].key]
        idx == {created[i] : i \in {j \in 1..Len(created) : IsArrayIndex(created[j])}}
    IN SortIndexKeys(idx) \o SelectSeq(created, IsNotArrayIndex)

---------------------------------------------------------------------------
(* Chart sampling *)

Min(a, b) == IF a < b THEN a ELSE b

\* Array.prototype.slice(begin, end) with 0-based, end-exclusive indices
Slice(arr, begin, end) == SubSeq(arr, begin + 1, Min(end, Len(arr)))

NameKey == <<"n", "a", "m", "e">>

\* "Stroka " stands for the row label of line 92
RowLabel(n) == <<"S", "t", "r", "o", "k", "a", " ">> \o NumberToString(n)

\* "Znachenie " stands for the series label of line 96
SeriesLabel(n) == <<"Z", "n", "a", "c", "h", "e", "n", "i", "e", " ">> \o NumberToString(n)

\* row.slice(1).forEach((value, colIdx) => ...), from column colIdx on
RECURSIVE AddSeries(_, _, _, _)
AddSeries(point, headers, row, colIdx) ==
    IF colIdx + 1 >= Len(row) THEN point
    ELSE LET value == At(row, colIdx + 1)
             key == ToKey(OrElse(At(headers, colIdx + 1), Str(SeriesLabel(colIdx + 1))))
         IN AddSeries(IF value.type = "number"
                      THEN PropertySet(point, key, value, FALSE)
                      ELSE point,
                      headers, row, colIdx + 1)

\* the callback of data.slice(1, 7).map((row, idx) => ...)
ChartPoint(headers, row, idx) ==
    AddSeries(PropertySet(EmptyObject, NameKey, OrElse(At(row, 0), Str(RowLabel(idx + 1))), FALSE),
              headers, row, 0)

\* p => Object.keys(p).length > 1
HasSeries(p) == Len(ObjectKeys(p)) > 1

\* an off-by-one end of the slice: data.slice(1, 8)
SampledRowsOffByOne(data) == Slice(data, 1, 8)

\* data.slice(1, 7)
SampledRows(data) == Slice(data, 1, 7)

\* chartPoints of generateChartData
ChartPoints(data) ==
    LET rows == SampledRows(data)
    IN [i \in 1..Len(rows) |-> ChartPoint(data[1], rows[i], i - 1)]

\* generateChartData(data) run while the chart state is chart: the value of
\* the chart state after the call
GenerateChartData(data, chart) ==
    IF Len(data) < 2 THEN chart
    ELSE SelectSeq(ChartPoints(data), HasSeries)

\* the grid of the last call of generateChartData that reached setChartData
Sampled(data, prev) == IF Len(data) < 2 THEN prev ELSE data

\* jsonData.map(row => row.map(cell => ({ value: cell })))
Wrap(jsonData) ==
    [r \in 1..Len(jsonData) |-> [c \in 1..Len(jsonData[r]) |-> [value |-> jsonData[r][c]]]]

\* data.map(row => row.map(cell => cell.value))
Unwrap(data) ==
    [r \in 1..Len(data) |-> [c \in 1..Len(data[r]) |-> data[r][c].value]]

---------------------------------------------------------------------------
(* Files. The spreadsheet codec is a black box: a file carries what the    *)
(* codec makes of it. readThrows: XLSX.read throws; Sheets[i].throws:      *)
(* sheet_to_json throws on the i-th sheet; Sheets[i].json: the rows that   *)
(* sheet_to_json returns for it.                                           *)

Sheet(jsonData) == [throws |-> FALSE, json |-> jsonData]

BadSheet == [throws |-> TRUE, json |-> <<>>]

Workbook(names, sheets) == [readThrows |-> FALSE, SheetNames |-> names, Sheets |-> sheets]

Corrupt == [readThrows |-> TRUE, SheetNames |-> <<>>, Sheets |-> <<>>]

File(name, book) == [name |-> name, book |-> book]

NoFile == File(<<>>, Corrupt)

Xlsx == <<".", "x", "l", "s", "x">>

Xls == <<".", "x", "l", "s">>

Csv == <<".", "c", "s", "v">>

\* Example 1 of the specification
GridSales ==
    << <<Str(<<"M", "o", "n", "t", "h">>), Str(<<"S", "a", "l", "e", "s">>)>>,
       <<Str(<<"J", "a", "n">>), Num(100)>>,
       <<Str(<<"F", "e", "b">>), Str(<<"n", "/", "a">>)>> >>

\* Example 2 of the specification: a header row only
GridHeaderOnly == << <<Str(<<"A">>)>> >>

\* a sheet without cells
GridEmpty == <<>>

\* a header row and seven data rows, each with a number
GridLong ==
    << <<Str(<<"k">>), Str(<<"v">>)>> >> \o
    [i \in 1..7 |-> <<Str(<<"r">> \o NumberToString(i)), Num(i)>>]

NData == <<"D", "a", "t", "a">>

NHdr == <<"H", "d", "r">>

NEmpty == <<"E", "m", "p", "t", "y">>

NSheet1 == <<"S", "h", "e", "e", "t", "1">>

\* the files the user supplies
Files ==
    { File(<<"B">> \o Xlsx,
           Workbook(<<NData, NHdr>>, <<Sheet(GridSales), Sheet(GridHeaderOnly)>>)),
      File(<<"B">> \o Xls,
           Workbook(<< <<"1", "0">>, <<"2">> >>, <<Sheet(GridLong), Sheet(GridSales)>>)),
      File(<<"P">> \o Xlsx,
           Workbook(<<ProtoKey, NData>>, <<Sheet(GridSales), Sheet(GridLong)>>)),
      File(<<"E">> \o Xlsx,
           Workbook(<<NEmpty, NData>>, <<Sheet(GridEmpty), Sheet(GridSales)>>)),
      File(<<"H">> \o Xlsx,
           Workbook(<<NHdr>>, <<Sheet(GridHeaderOnly)>>)),
      File(<<"X">> \o Xlsx, Corrupt),
      File(<<"Y">> \o Xlsx,
           Workbook(<<NData, NHdr>>, <<Sheet(GridLong), BadSheet>>)),
      File(<<"N">> \o Csv,
           Workbook(<<NSheet1>>, <<Sheet(GridSales)>>)) }

---------------------------------------------------------------------------
(* What the last handler did: the handler, the file it was given, the      *)
(* toast it raised, whether it called processFile, whether it called       *)
(* generateChartData and on which rows, and the file it wrote.             *)
(* Toast titles: "loaded" (line 72), "error" (line 77), "wrong-format"     *)
(* (line 115), "exported" (line 140).                                      *)

NoWrite == [done |-> FALSE, name |-> <<>>, SheetNames |-> <<>>, aoa |-> <<>>]

Event(op, supplied, file, toast, processed, gen, data, wrote) ==
    [op |-> op, supplied |-> supplied, file |-> file, toast |-> toast,
     processed |-> processed, gen |-> gen, data |-> data, wrote |-> wrote]

---------------------------------------------------------------------------
(* The component *)

\* useState initial values (lines 35-39); no read is in flight
Init ==
    /\ sheetData = EmptyObject
    /\ activeSheet = <<>>
    /\ fileName = <<>>
    /\ chartData = <<>>
    /\ pending = EmptyBag
    /\ last = Event("init", FALSE, NoFile, "none", FALSE, FALSE, <<>>, NoWrite)
    /\ sampled = <<>>

\* sheetData[activeSheet]
ActiveGrid == PropertyGet(sheetData, activeSheet, <<>>)

\* currentData (line 145)
currentData == IF activeSheet # <<>> THEN ActiveGrid.val ELSE <<>>

\* the upload card is rendered (line 166)
DropZoneShown == Len(currentData) = 0

\* the sheet tabs are rendered (lines 166, 207)
TabsShown == Len(currentData) # 0 /\ Len(ObjectKeys(sheetData)) > 1

\* the export button is rendered (line 158)
ExportShown == Len(currentData) > 0

\* the test of handleDrop on the file name (line 111)
Accepted(name) == EndsWith(name, Xlsx) \/ EndsWith(name, Xls)

\* processFile(file): the read starts, reader.onload runs later
processFile(file) == pending' = pending (+) SetToBag({file})

CanRead == BagCardinality(pending) < MaxPending

\* handleDrop with the first dropped file, or with no file at all
handleDrop(supplied, file) ==
    /\ DropZoneShown
    /\ IF supplied /\ Accepted(file.name)
       THEN /\ CanRead
            /\ processFile(file)
            /\ last' = Event("handleDrop", supplied, file, "none", TRUE, FALSE, <<>>, NoWrite)
       ELSE /\ pending' = pending
            /\ last' = Event("handleDrop", supplied, file, "wrong-format", FALSE, FALSE, <<>>, NoWrite)
    /\ UNCHANGED <<sheetData, activeSheet, fileName, chartData, sampled>>

\* handleFileInput with the picked file, or with no file at all
handleFileInput(supplied, file) ==
    /\ DropZoneShown
    /\ IF supplied
       THEN /\ CanRead
            /\ processFile(file)
            /\ last' = Event("handleFileInput", supplied, file, "none", TRUE, FALSE, <<>>, NoWrite)
       ELSE /\ pending' = pending
            /\ last' = Event("handleFileInput", supplied, file, "none", FALSE, FALSE, <<>>, NoWrite)
    /\ UNCHANGED <<sheetData, activeSheet, fileName, chartData, sampled>>

\* workbook.SheetNames.forEach(...) from the i-th sheet on (lines 53-65);
\* acc holds sheets, firstSheet, the chart state and whether a call threw
RECURSIVE ForEachSheet(_, _, _)
ForEachSheet(book, i, acc) ==
    IF i > Len(book.SheetNames) \/ acc.threw THEN acc
    ELSE IF book.Sheets[i].throws THEN [acc EXCEPT !.threw = TRUE]
    ELSE LET sheetName == book.SheetNames[i]
             jsonData == book.Sheets[i].json
             stored == [acc EXCEPT !.sheets = PropertySet(acc.sheets, sheetName, Wrap(jsonData), TRUE)]
         IN ForEachSheet(book, i + 1,
              IF i = 1
              THEN [stored EXCEPT !.firstSheet = sheetName,
                                  !.chart = GenerateChartData(jsonData, acc.chart),
                                  !.sampled = Sampled(jsonData, acc.sampled),
                                  !.gen = TRUE,
                                  !.data = jsonData]
              ELSE stored)

\* the try block of reader.onload up to the state updates (lines 47-65)
Decode(book, chart, smp) ==
    IF book.readThrows
    THEN [sheets |-> EmptyObject, firstSheet |-> <<>>, chart |-> chart, sampled |-> smp,
          gen |-> FALSE, data |-> <<>>, threw |-> TRUE]
    ELSE ForEachSheet(book, 1,
          [sheets |-> EmptyObject, firstSheet |-> <<>>, chart |-> chart, sampled |-> smp,
           gen |-> FALSE, data |-> <<>>, threw |-> FALSE])

\* reader.onload for a file whose read completed (lines 45-82)
onload(file) ==
    /\ BagIn(file, pending)
    /\ pending' = pending (-) SetToBag({file})
    /\ LET r == Decode(file.book, chartData, sampled)
       IN /\ chartData' = r.chart
          /\ sampled' = r.sampled
          /\ IF r.threw
             THEN /\ UNCHANGED <<sheetData, activeSheet, fileName>>
                  /\ last' = Event("onload", TRUE, file, "error", FALSE, r.gen, r.data, NoWrite)
             ELSE /\ sheetData' = r.sheets
                  /\ activeSheet' = r.firstSheet
                  /\ fileName' = file.name
                  /\ last' = Event("onload", TRUE, file, "loaded", FALSE, r.gen, r.data, NoWrite)

\* onClick of the tab of sheetName (lines 213-217)
onClick(sheetName) ==
    /\ TabsShown
    /\ \E i \in 1..Len(ObjectKeys(sheetData)) : ObjectKeys(sheetData)[i] = sheetName
    /\ LET data == Unwrap(PropertyGet(sheetData, sheetName, <<>>).val)
       IN /\ activeSheet' = sheetName
          /\ chartData' = GenerateChartData(data, chartData)
          /\ sampled' = Sampled(data, sampled)
          /\ last' = Event("onClick", FALSE, NoFile, "none", FALSE, TRUE, data, NoWrite)
    /\ UNCHANGED <<sheetData, fileName, pending>>

\* `${fileName || 'export'}_edited.xlsx` (line 137)
ExportName(name) ==
    (IF name # <<>> THEN name ELSE <<"e", "x", "p", "o", "r", "t">>)
    \o <<"_", "e", "d", "i", "t", "e", "d">> \o Xlsx

\* exportToExcel (lines 129-143)
exportToExcel ==
    /\ ExportShown
    /\ IF activeSheet = <<>> \/ ~ActiveGrid.found
       THEN last' = Event("exportToExcel", FALSE, NoFile, "none", FALSE, FALSE, <<>>, NoWrite)
       ELSE last' = Event("exportToExcel", FALSE, NoFile, "exported", FALSE, FALSE, <<>>,
                          [done |-> TRUE, name |-> ExportName(fileName),
                           SheetNames |-> <<activeSheet>>,
                           aoa |-> Unwrap(ActiveGrid.val)])
    /\ UNCHANGED <<sheetData, activeSheet, fileName, chartData, pending, sampled>>

Drop == \E f \in Files : handleDrop(TRUE, f)

DropNothing == handleDrop(FALSE, NoFile)

Pick == \E f \in Files : handleFileInput(TRUE, f)

PickNothing == handleFileInput(FALSE, NoFile)

Load == \E f \in Files : onload(f)

SwitchSheet == \E i \in 1..Len(ObjectKeys(sheetData)) : onClick(ObjectKeys(sheetData)[i])

Export == exportToExcel

Next == Drop \/ DropNothing \/ Pick \/ PickNothing \/ Load \/ SwitchSheet \/ Export

Spec == Init /\ [][Next]_vars

---------------------------------------------------------------------------
(* The chart sampling alone: one read is in flight, of a workbook with a   *)
(* single sheet whose rows range over the small grids below, and           *)
(* reader.onload runs on it.                                               *)

HeaderCells == {Str(<<>>), Str(NameKey), Str(<<"S">>)}

FirstCells == {Str(<<>>), Str(<<"J", "a", "n">>), Num(0)}

DataCells == {Str(<<"n", "/", "a">>), Num(0), Num(7)}

SampleHeaders == {<<Str(<<"k">>)>> \o t : t \in [1..MaxCols -> HeaderCells]}

SampleRows == {<<f>> \o t : f \in FirstCells, t \in [1..MaxCols -> DataCells]}

SampleGrids == {<<h>> \o rows : h \in SampleHeaders, rows \in [1..MaxDataRows -> SampleRows]}

SampleFile(grid) == File(<<"B">> \o Xlsx, Workbook(<<NSheet1>>, <<Sheet(grid)>>))

InitSample ==
    \E g \in SampleGrids :
        /\ sheetData = EmptyObject
        /\ activeSheet = <<>>
        /\ fileName = <<>>
        /\ chartData = <<>>
        /\ pending = SetToBag({SampleFile(g)})
        /\ last = Event("handleDrop", TRUE, SampleFile(g), "none", TRUE, FALSE, <<>>, NoWrite)
        /\ sampled = <<>>

NextSample == \E f \in BagToSet(pending) : onload(f)

SpecSample == InitSample /\ [][NextSample]_vars

---------------------------------------------------------------------------
(* Claims *)

Loaded == last.op = "onload" /\ last.toast = "loaded"

\* the result of the chart sampling of a grid, starting from no chart
ChartOf(data) == GenerateChartData(data, <<>>)

\* C1: whenever an active sheet is set, the chart is the chart sampling of
\* the raw values of the active sheet's grid
C1_ChartIsOfActiveSheet ==
    activeSheet # <<>> => chartData = ChartOf(Unwrap(currentData))

\* C2: after generateChartData ran on rows with fewer than 2 rows, during
\* an ingest or a sheet switch, the chart is empty
C2_ShortGridEmptiesChart ==
    (last.gen /\ Len(last.data) < 2) => chartData = <<>>

\* C3: an ingest that fails leaves the sheets, the active sheet, the file
\* name and the chart as they were before it
C3_FailedIngestKeepsState ==
    [][(last'.op = "onload" /\ last'.toast = "error")
         => UNCHANGED <<sheetData, activeSheet, fileName, chartData>>]_vars

\* C4: a dropped or picked file whose name ends in neither .xlsx nor .xls
\* is not passed to processFile, raises the wrong-format toast and leaves
\* the sheets, the active sheet and the chart unchanged
C4_WrongFormatRejected ==
    [][(last'.op \in {"handleDrop", "handleFileInput"} /\ last'.supplied
          /\ ~Accepted(last'.file.name))
         => /\ ~last'.processed
            /\ pending' = pending
            /\ last'.toast = "wrong-format"
            /\ UNCHANGED <<sheetData, activeSheet, chartData>>]_vars

HasNumeric(row) == \E c \in 2..Len(row) : row[c].type = "number"

\* the positions within the sample, in order, that satisfy Test
Positions(n, Test(_)) == SelectSeq([i \in 1..n |-> i], Test)

\* C5: for a grid of at least 2 rows the chart holds a record for a
\* sampled row iff the row has a numeric cell in columns 1..N
C5_RecordIffNumericCell ==
    (Loaded /\ Len(last.data) >= 2) =>
        LET rows == Slice(last.data, 1, 7)
            pos == Positions(Len(rows), LAMBDA i : HasNumeric(rows[i]))
        IN chartData = [j \in 1..Len(pos) |->
                          ChartPoint(last.data[1], rows[pos[j]], pos[j] - 1)]

\* C6: after a successful ingest Object.keys of the sheets is the list of
\* sheet names of the file, in order, and the active sheet is its first key
C6_KeysInSourceOrder ==
    Loaded => /\ ObjectKeys(sheetData) = last.file.book.SheetNames
              /\ Len(ObjectKeys(sheetData)) > 0
              /\ activeSheet = ObjectKeys(sheetData)[1]

\* C7: whenever the sheets are not empty, the active sheet is one of their
\* keys
C7_ActiveSheetIsKey ==
    Len(ObjectKeys(sheetData)) > 0 =>
        \E i \in 1..Len(ObjectKeys(sheetData)) : ObjectKeys(sheetData)[i] = activeSheet

\* the elements of a set of numbers, ascending
RECURSIVE Ascending(_)
Ascending(S) ==
    IF S = {} THEN <<>>
    ELSE LET m == CHOOSE k \in S : \A o \in S : k <= o
         IN <<m>> \o Ascending(S \ {m})

\* chart consists of the records of some of rows 1..6 of data, in row order
FromRowsOneToSix(chart, data) ==
    \E S \in SUBSET (1..Min(6, Len(data) - 1)) :
        /\ Cardinality(S) = Len(chart)
        /\ \A j \in 1..Len(chart) :
             chart[j] = ChartPoint(data[1], data[Ascending(S)[j] + 1], Ascending(S)[j] - 1)

\* C8: the chart holds at most 6 records, each built from one of rows 1
\* through 6 of the sampled grid, in source row order
C8_AtMostSixInRowOrder ==
    /\ Len(chartData) <= 6
    /\ FromRowsOneToSix(chartData, sampled)

\* a grid with more than 6 data rows was sampled and the chart holds 6
\* records
C8_Witness == Len(sampled) > 7 /\ Len(chartData) = 6

\* the name of an upload without its extension
BaseName(name) ==
    IF EndsWith(name, Xlsx) THEN SubSeq(name, 1, Len(name) - Len(Xlsx))
    ELSE IF EndsWith(name, Xls) THEN SubSeq(name, 1, Len(name) - Len(Xls))
    ELSE name

\* C9: an export after the ingest of B.xlsx or B.xls writes a file named
\* B_edited.xlsx that holds one sheet, the active one
C9_ExportNamedAfterBaseName ==
    (last.op = "exportToExcel" /\ Accepted(fileName)) =>
        /\ last.wrote.done
        /\ last.wrote.name = BaseName(fileName) \o <<"_", "e", "d", "i", "t", "e", "d">> \o Xlsx
        /\ last.wrote.SheetNames = <<activeSheet>>

\* the name the record of a row at position k of the sample is to carry
NameOfRow(row, k) ==
    IF At(row, 0).type = "number" \/ (At(row, 0).type = "string" /\ At(row, 0).str # <<>>)
    THEN At(row, 0)
    ELSE Str(RowLabel(k))

\* C10: the name of the record built from the sampled row at position k is
\* the row's first cell when that cell holds any text or number, and the
\* label of position k only when the cell is blank
C10_NameIsFirstCell ==
    (Loaded /\ Len(last.data) >= 2) =>
        LET rows == Slice(last.data, 1, 7)
            pos == Positions(Len(rows), LAMBDA i : HasSeries(ChartPoints(last.data)[i]))
        IN /\ Len(chartData) = Len(pos)
           /\ \A j \in 1..Len(pos) :
                PropertyGet(chartData[j], NameKey, Undefined).val = NameOfRow(rows[pos[j]], pos[j])

===========================================================================
